---- MODULE Spec2Model ----
\* Model of rosenpass/src/sodium.rs: the BLAKE2b based hash, mac and hmac
\* helpers built on libsodium's crypto_generichash_blake2b.
\*
\* The functions are synchronous and pure apart from the call into libsodium,
\* so every public function is one action.  The arguments of the call (key,
\* data, the length of the caller's output buffer) are drawn by Init; what
\* libsodium answers on each invocation is drawn by the action.
EXTENDS Integers, Sequences, FiniteSets, TLC

VARIABLES op, key, data, outlen, out, res, site, ret, calls

vars == <<op, key, data, outlen, out, res, site, ret, calls>>

----------------------------------------------------------------------------
\* Sizes

KEY_SIZE == 32
MAC16_SIZE == 16
KEY_MIN == 16
KEY_MAX == 64
OUT_MIN == 16
OUT_MAX == 64
IPAD_BYTE == 54
OPAD_BYTE == 92

\* Bounds of the model
MaxDataLen == 1
MaxStatus == 1
LenSlack == 1

----------------------------------------------------------------------------
\* Buffer contents.  Keys are concrete bytes (they are XORed); every other
\* content is a term: the caller's data, a zero-initialised array, whatever
\* the caller's buffer held before the call, a digest computed by libsodium,
\* or the unspecified content libsodium leaves behind when it fails.

Raw(bytes) == [kind |-> "raw", bytes |-> bytes]
Zeros == [kind |-> "zeros"]
Caller == [kind |-> "caller"]
Unspecified == [kind |-> "unspecified"]
NoValue == [kind |-> "novalue"]

Buf(n, v) == [len |-> n, val |-> v]

\* BLAKE2b is not computed: a digest is the term naming its inputs.  A null
\* key pointer and a pointer to an empty key are distinct inputs.
Digest(n, knull, k, d) ==
    [kind |-> "digest", outlen |-> n, knull |-> knull, key |-> k, data |-> d]

\* data.len()
DataLen(d) ==
    IF d.kind = "raw" THEN Len(d.bytes)
    ELSE IF d.kind = "digest" THEN d.outlen
    ELSE 0

\* Bit p (a power of two) of a ^ b
xor_bit(a, b, p) == ((((a \div p) % 2) + ((b \div p) % 2)) % 2) * p

\* a ^ b on u8
xor_u8(a, b) ==
    xor_bit(a, b, 1) + xor_bit(a, b, 2) + xor_bit(a, b, 4) + xor_bit(a, b, 8)
        + xor_bit(a, b, 16) + xor_bit(a, b, 32) + xor_bit(a, b, 64)
        + xor_bit(a, b, 128)

\* The table of ^ on u8
XOR8 == [a \in 0..255 |-> [b \in 0..255 |-> xor_u8(a, b)]]

\* rosenpass_constant_time::xor_into(a, b): a[i] ^= b[i]
xor_into(a, b) == [i \in 1..Len(a) |-> XOR8[a[i]][b[i]]]

Fill(n, b) == [i \in 1..n |-> b]

IPAD == Fill(KEY_SIZE, IPAD_BYTE)
OPAD == Fill(KEY_SIZE, OPAD_BYTE)

----------------------------------------------------------------------------
\* The outcome of a function: how it ended ("ok", "err" for Err(..), "panic"
\* for a failed assert!), the function whose check or call raised the error
\* or the panic, the output buffer it was given as it is afterwards, and the
\* libsodium invocations made so far.

Outcome(r, s, o, c) == [res |-> r, site |-> s, out |-> o, calls |-> c]

\* What libsodium does on one invocation: the status it returns and whether
\* it has written to the output buffer, which it has when it succeeds and may
\* or may not have when it fails.
Statuses == (0 - MaxStatus)..MaxStatus
Answers ==
    {a \in [status : Statuses, clobber : BOOLEAN] : a.status >= 0 => a.clobber}

\* libsodium::crypto_generichash_blake2b(out, outlen, in, inlen, key, keylen)
crypto_generichash_blake2b(o, olen, d, dlen, kptr, k, klen, ans) ==
    [status |-> ans.status,
     out |-> IF ans.status >= 0
               THEN Buf(o.len, Digest(olen, kptr = "null", k, d))
               ELSE IF ans.clobber THEN Buf(o.len, Unspecified) ELSE o]

Invocation(olen, d, dlen, kptr, k, klen, status) ==
    [outlen |-> olen, data |-> d, datalen |-> dlen, kptr |-> kptr,
     key |-> k, keylen |-> klen, status |-> status]

\* sodium_call! without its ensure!
sodium_call_ignoring_status(o, olen, d, dlen, kptr, k, klen, c, oracle) ==
    LET r == crypto_generichash_blake2b(o, olen, d, dlen, kptr, k, klen,
                                        oracle[Len(c) + 1])
        c2 == Append(c, Invocation(olen, d, dlen, kptr, k, klen, r.status))
    IN  Outcome("ok", "", r.out, c2)

\* sodium_call!(crypto_generichash_blake2b, ...): Err unless the status > -1
sodium_call(o, olen, d, dlen, kptr, k, klen, c, oracle) ==
    LET r == crypto_generichash_blake2b(o, olen, d, dlen, kptr, k, klen,
                                        oracle[Len(c) + 1])
        c2 == Append(c, Invocation(olen, d, dlen, kptr, k, klen, r.status))
    IN  IF r.status > -1 THEN Outcome("ok", "", r.out, c2)
        ELSE Outcome("err", "sodium_call", r.out, c2)

\* blake2b_flexible passing key.as_ptr() for the empty key too
blake2b_flexible_dangling_key(o, k, d, c, oracle) ==
    IF ~(Len(k) = 0 \/ (KEY_MIN <= Len(k) /\ Len(k) <= KEY_MAX))
      THEN Outcome("panic", "blake2b_flexible", o, c)
    ELSE IF ~(OUT_MIN <= o.len /\ o.len <= OUT_MAX)
      THEN Outcome("panic", "blake2b_flexible", o, c)
    ELSE sodium_call(o, o.len, d, DataLen(d), "ptr", k, Len(k), c, oracle)

\* Both range assertions, then the null pointer for the empty key
blake2b_flexible(o, k, d, c, oracle) ==
    IF ~(Len(k) = 0 \/ (KEY_MIN <= Len(k) /\ Len(k) <= KEY_MAX))
      THEN Outcome("panic", "blake2b_flexible", o, c)
    ELSE IF ~(OUT_MIN <= o.len /\ o.len <= OUT_MAX)
      THEN Outcome("panic", "blake2b_flexible", o, c)
    ELSE LET kptr == IF Len(k) = 0 THEN "null" ELSE "ptr"
         IN  sodium_call(o, o.len, d, DataLen(d), kptr, k, Len(k), c, oracle)

NOTHING == <<>>

\* hash_into without its assert!
hash_into_unchecked(o, d, c, oracle) ==
    blake2b_flexible(o, NOTHING, d, c, oracle)

hash_into(o, d, c, oracle) ==
    IF o.len # KEY_SIZE THEN Outcome("panic", "hash_into", o, c)
    ELSE blake2b_flexible(o, NOTHING, d, c, oracle)

\* A function returning Result<[u8; N]>: the array on Ok, nothing otherwise;
\* `?` hands an Err on, a panic unwinds.
Returning(r) ==
    [res |-> r.res, site |-> r.site,
     ret |-> IF r.res = "ok" THEN r.out.val ELSE NoValue, calls |-> r.calls]

hash(d, c, oracle) == Returning(hash_into(Buf(KEY_SIZE, Zeros), d, c, oracle))

\* mac_into without assert!(key.len() == KEY_SIZE)
mac_into_unchecked_key(o, k, d, c, oracle) ==
    IF o.len # KEY_SIZE THEN Outcome("panic", "mac_into", o, c)
    ELSE blake2b_flexible(o, k, d, c, oracle)

mac_into(o, k, d, c, oracle) ==
    IF o.len # KEY_SIZE THEN Outcome("panic", "mac_into", o, c)
    ELSE IF Len(k) # KEY_SIZE THEN Outcome("panic", "mac_into", o, c)
    ELSE blake2b_flexible(o, k, d, c, oracle)

mac(k, d, c, oracle) == Returning(mac_into(Buf(KEY_SIZE, Zeros), k, d, c, oracle))

\* The first MAC16_SIZE bytes of a value
Prefix(n, v) == [kind |-> "prefix", n |-> n, of |-> v]

\* mac16 as the first 16 bytes of mac
mac16_truncating(k, d, c, oracle) ==
    LET m == mac(k, d, c, oracle)
    IN  [m EXCEPT !.ret = IF m.res = "ok" THEN Prefix(MAC16_SIZE, m.ret)
                          ELSE NoValue]

mac16(k, d, c, oracle) ==
    IF Len(k) # KEY_SIZE
      THEN Returning(Outcome("panic", "mac16", Buf(MAC16_SIZE, Zeros), c))
    ELSE Returning(blake2b_flexible(Buf(MAC16_SIZE, Zeros), k, d, c, oracle))

\* hmac_into with the second copy_from_slice(key) left out
hmac_into_no_recopy(o, k, d, c, oracle) ==
    IF Len(k) # KEY_SIZE THEN Outcome("err", "hmac_into", o, c)
    ELSE LET temp_key1 == xor_into(k, IPAD)
             outer_data == mac(temp_key1, d, c, oracle)
         IN  IF outer_data.res # "ok"
               THEN Outcome(outer_data.res, outer_data.site, o, outer_data.calls)
             ELSE LET temp_key2 == xor_into(temp_key1, OPAD)
                  IN  mac_into(o, temp_key2, outer_data.ret,
                               outer_data.calls, oracle)

\* hmac_into with assert! in place of ensure!
hmac_into_assert_key(o, k, d, c, oracle) ==
    IF Len(k) # KEY_SIZE THEN Outcome("panic", "hmac_into", o, c)
    ELSE LET temp_key1 == xor_into(k, IPAD)
             outer_data == mac(temp_key1, d, c, oracle)
         IN  IF outer_data.res # "ok"
               THEN Outcome(outer_data.res, outer_data.site, o, outer_data.calls)
             ELSE LET temp_key2 == xor_into(k, OPAD)
                  IN  mac_into(o, temp_key2, outer_data.ret,
                               outer_data.calls, oracle)

\* hmac_into with the inner pad used for the outer key too
hmac_into_same_pad(o, k, d, c, oracle) ==
    IF Len(k) # KEY_SIZE THEN Outcome("err", "hmac_into", o, c)
    ELSE LET temp_key1 == xor_into(k, IPAD)
             outer_data == mac(temp_key1, d, c, oracle)
         IN  IF outer_data.res # "ok"
               THEN Outcome(outer_data.res, outer_data.site, o, outer_data.calls)
             ELSE LET temp_key2 == xor_into(k, IPAD)
                  IN  mac_into(o, temp_key2, outer_data.ret,
                               outer_data.calls, oracle)

\* hmac_into with the inner tag computed in the caller's buffer
hmac_into_inner_in_place(o, k, d, c, oracle) ==
    IF Len(k) # KEY_SIZE THEN Outcome("err", "hmac_into", o, c)
    ELSE LET temp_key1 == xor_into(k, IPAD)
             inner == mac_into(o, temp_key1, d, c, oracle)
         IN  IF inner.res # "ok" THEN inner
             ELSE LET temp_key2 == xor_into(k, OPAD)
                  IN  mac_into(inner.out, temp_key2, inner.out.val,
                               inner.calls, oracle)

\* ensure!(key.len() == KEY_SIZE) comes first; the inner mac runs on its own
\* array; mac(..)? returns its Err; the outer mac_into checks out.len().
hmac_into(o, k, d, c, oracle) ==
    IF Len(k) # KEY_SIZE THEN Outcome("err", "hmac_into", o, c)
    ELSE LET temp_key1 == xor_into(k, IPAD)
             outer_data == mac(temp_key1, d, c, oracle)
         IN  IF outer_data.res # "ok"
               THEN Outcome(outer_data.res, outer_data.site, o, outer_data.calls)
             ELSE LET temp_key2 == xor_into(k, OPAD)
                  IN  mac_into(o, temp_key2, outer_data.ret,
                               outer_data.calls, oracle)

hmac(k, d, c, oracle) == Returning(hmac_into(Buf(KEY_SIZE, Zeros), k, d, c, oracle))

----------------------------------------------------------------------------
\* Inputs

Key(n, b, step) == [i \in 1..n |-> (b + (step * i)) % 256]

KeyLens ==
    {0, KEY_MIN - 1, KEY_MIN, KEY_MAX, KEY_MAX + 1}
        \cup ((KEY_SIZE - LenSlack)..(KEY_SIZE + LenSlack))

OutLens ==
    {0, OUT_MIN - 1, OUT_MIN, OUT_MAX, OUT_MAX + 1}
        \cup ((KEY_SIZE - LenSlack)..(KEY_SIZE + LenSlack))

Keys ==
    {Key(n, 11, 0) : n \in KeyLens}
        \cup {Key(KEY_SIZE, 0, 0), Key(KEY_SIZE, 255, 7)}

Datas == {Raw(Fill(n, 116)) : n \in 0..MaxDataLen}

\* What libsodium answers on the invocations of one call: the functions
\* other than hmac and hmac_into reach it at most once.
Oracles1 == [1..1 -> Answers]
Oracles2 == [1..2 -> Answers]

Init ==
    /\ op = "none"
    /\ key \in Keys
    /\ data \in Datas
    /\ outlen \in OutLens
    /\ out = Buf(outlen, Caller)
    /\ res = "none"
    /\ site = ""
    /\ ret = NoValue
    /\ calls = <<>>

\* An _into function called on the caller's buffer
Into(name, r) ==
    /\ op' = name
    /\ out' = r.out
    /\ res' = r.res
    /\ site' = r.site
    /\ ret' = NoValue
    /\ calls' = r.calls
    /\ UNCHANGED <<key, data, outlen>>

\* A function returning its digest
Value(name, r) ==
    /\ op' = name
    /\ out' = Buf(outlen, Caller)
    /\ res' = r.res
    /\ site' = r.site
    /\ ret' = r.ret
    /\ calls' = r.calls
    /\ UNCHANGED <<key, data, outlen>>

Call_hash_into ==
    \E oracle \in Oracles1 :
        \E r \in {hash_into(Buf(outlen, Caller), data, <<>>, oracle)} :
            Into("hash_into", r)

Call_hash ==
    \E oracle \in Oracles1 :
        \E r \in {hash(data, <<>>, oracle)} :
            Value("hash", r)

Call_mac_into ==
    \E oracle \in Oracles1 :
        \E r \in {mac_into(Buf(outlen, Caller), key, data, <<>>, oracle)} :
            Into("mac_into", r)

Call_mac ==
    \E oracle \in Oracles1 :
        \E r \in {mac(key, data, <<>>, oracle)} :
            Value("mac", r)

Call_mac16 ==
    \E oracle \in Oracles1 :
        \E r \in {mac16(key, data, <<>>, oracle)} :
            Value("mac16", r)

Call_hmac_into ==
    \E oracle \in Oracles2 :
        \E r \in {hmac_into(Buf(outlen, Caller), key, data, <<>>, oracle)} :
            Into("hmac_into", r)

Call_hmac ==
    \E oracle \in Oracles2 :
        \E r \in {hmac(key, data, <<>>, oracle)} :
            Value("hmac", r)

Next ==
    \/ Call_hash_into
    \/ Call_hash
    \/ Call_mac_into
    \/ Call_mac
    \/ Call_mac16
    \/ Call_hmac_into
    \/ Call_hmac

Spec == Init /\ [][Next]_vars

----------------------------------------------------------------------------
\* Properties

KeySized == Len(key) = KEY_SIZE
OutSized == outlen = KEY_SIZE
Untouched == out = Buf(outlen, Caller)

\* k XOR a pad of the byte b, bit by bit
Padded(k, b) == [i \in 1..Len(k) |-> xor_u8(k[i], b)]

AllSucceeded == \A i \in 1..Len(calls) : calls[i].status >= 0
SomeFailed == \E i \in 1..Len(calls) : calls[i].status < 0

InnerTag == Digest(32, FALSE, Padded(key, 54), data)
OuterTag == Digest(32, FALSE, Padded(key, 92), InnerTag)

\* C1: with a 32-byte key (and a 32-byte out for hmac_into) and libsodium
\* succeeding on every invocation, hmac_into and hmac invoke libsodium exactly
\* twice, first keyed with key XOR 0x36.. over data, then keyed with
\* key XOR 0x5C.. over the 32-byte inner tag, both with key length 32 and
\* output length 32, and the result is the tag of the second invocation.
C1_HmacIsNestedMac ==
    (/\ op \in {"hmac_into", "hmac"}
     /\ KeySized
     /\ op = "hmac_into" => OutSized
     /\ AllSucceeded)
    => /\ res = "ok"
       /\ Len(calls) = 2
       /\ calls[1].key = Padded(key, 54)
       /\ calls[1].data = data
       /\ calls[2].key = Padded(key, 92)
       /\ calls[2].data = InnerTag
       /\ calls[2].datalen = 32
       /\ \A i \in 1..2 : calls[i].keylen = 32 /\ calls[i].outlen = 32
       /\ op = "hmac_into" => out = Buf(32, OuterTag)
       /\ op = "hmac" => ret = OuterTag

C1_Witness ==
    /\ op = "hmac_into"
    /\ KeySized /\ OutSized
    /\ res = "ok"
    /\ Len(calls) = 2
    /\ out.val = OuterTag

\* C2: with a key whose length is not 32, hmac_into and hmac return an error
\* raised by hmac_into's own check, whatever the length of out: no panic, no
\* invocation of libsodium, the output buffer unchanged.
C2_HmacBadKeyIsError ==
    (op \in {"hmac_into", "hmac"} /\ ~KeySized)
    => /\ res = "err"
       /\ site = "hmac_into"
       /\ calls = <<>>
       /\ Untouched
       /\ ret = NoValue

C2_Witness ==
    /\ op = "hmac_into"
    /\ ~KeySized /\ ~OutSized
    /\ res = "err"

CorrectlySized ==
    \/ op = "hash"
    \/ op = "hash_into" /\ OutSized
    \/ op \in {"mac", "mac16", "hmac"} /\ KeySized
    \/ op \in {"mac_into", "hmac_into"} /\ KeySized /\ OutSized

\* C3: with correctly sized arguments every public function returns an error
\* when an invocation of libsodium returned a status < 0, and success when
\* every invocation it made returned 0 or more.
C3_StatusDecidesResult ==
    CorrectlySized
    => /\ SomeFailed => res = "err"
       /\ AllSucceeded => res = "ok"

C3_Witness ==
    /\ op = "hmac"
    /\ KeySized
    /\ Len(calls) = 2
    /\ calls[1].status > 0
    /\ calls[2].status < 0
    /\ res = "err"

WrongSizeForAssert ==
    \/ op = "hash_into" /\ ~OutSized
    \/ op = "mac_into" /\ (~OutSized \/ ~KeySized)
    \/ op \in {"mac", "mac16"} /\ ~KeySized

\* C4: hash_into with an out that is not 32 bytes, mac_into with an out that
\* is not 32 bytes, and mac, mac_into and mac16 with a key that is not 32
\* bytes panic in their own assertion, and libsodium is not invoked.
C4_WrongSizePanics ==
    WrongSizeForAssert
    => /\ res = "panic"
       /\ site = op
          \/ (op = "mac" /\ site = "mac_into")
       /\ calls = <<>>

C4_Witness ==
    /\ op = "hash_into"
    /\ outlen = 31
    /\ res = "panic"

\* C5: hmac_into with a 32-byte key and an out that is not 32 bytes panics
\* before libsodium has been invoked.
C5_HmacBadOutPanicsFirst ==
    (op = "hmac_into" /\ KeySized /\ ~OutSized)
    => /\ res = "panic"
       /\ calls = <<>>

\* C6: in every invocation of libsodium the key pointer is null exactly when
\* the key length is 0; hash and hash_into invoke it with a null key, key
\* length 0 and output length 32; mac, mac_into, mac16, hmac and hmac_into
\* with a non-null key of length 32.
C6_NullKeyIffEmpty ==
    \A i \in 1..Len(calls) :
        /\ calls[i].kptr = "null" <=> calls[i].keylen = 0
        /\ op \in {"hash", "hash_into"}
           => /\ calls[i].kptr = "null"
              /\ calls[i].keylen = 0
              /\ calls[i].outlen = 32
        /\ op \in {"mac", "mac_into", "mac16", "hmac", "hmac_into"}
           => /\ calls[i].kptr = "ptr"
              /\ calls[i].keylen = 32

C6_Witness ==
    /\ op = "hash"
    /\ Len(calls) = 1
    /\ calls[1].kptr = "null"
    /\ res = "ok"
    /\ ret = Digest(32, TRUE, <<>>, data)

\* C7: mac16 with a 32-byte key invokes libsodium exactly once, asking for 16
\* bytes under the given key over the given data, and returns that 16-byte
\* tag: not the first 16 bytes of the 32-byte mac.
C7_Mac16IsOwnCall ==
    (op = "mac16" /\ KeySized)
    => /\ Len(calls) = 1
       /\ calls[1].outlen = 16
       /\ calls[1].key = key
       /\ calls[1].data = data
       /\ res = "ok" => ret = Digest(16, FALSE, key, data)

C7_Witness ==
    /\ op = "mac16"
    /\ KeySized
    /\ res = "ok"
    /\ ret.kind = "digest"
    /\ ret.outlen = 16

PadsAreConstants ==
    /\ Len(IPAD) = 32 /\ Len(OPAD) = 32
    /\ \A i \in 1..32 :
        /\ IPAD[i] = 54 /\ OPAD[i] = 92
        /\ xor_u8(IPAD[i], OPAD[i]) = 106
    /\ IPAD # OPAD
    /\ IPAD # Fill(32, 0) /\ OPAD # Fill(32, 0)

HmacKeysDiffer ==
    (op \in {"hmac_into", "hmac"} /\ Len(calls) = 2)
    => \A i \in 1..32 :
        /\ xor_u8(calls[1].key[i], calls[2].key[i]) = 106
        /\ calls[1].key[i] # calls[2].key[i]

\* C8: IPAD is 32 bytes of 0x36, OPAD 32 bytes of 0x5C, their XOR 32 bytes of
\* 0x6A, they differ and neither is zero; the two keys hmac passes to
\* libsodium XOR to 32 bytes of 0x6A and differ in every byte; the caller's
\* key is never modified.
C8_PadAlgebra ==
    /\ [](PadsAreConstants /\ HmacKeysDiffer)
    /\ [][key' = key]_vars

C8_Witness ==
    /\ op = "hmac"
    /\ Len(calls) = 2
    /\ calls[1].key # key
    /\ calls[2].key # key
    /\ res = "ok"

\* C9: libsodium is invoked at most once by hash, hash_into, mac, mac_into
\* and mac16 and at most twice by hmac and hmac_into, never twice on the same
\* input; when the inner invocation of hmac_into fails, hmac_into returns the
\* error without a second invocation and with the caller's buffer unchanged;
\* hash, mac and hmac return no digest unless they succeed.
C9_NoRetryFailureStops ==
    /\ op \in {"hash", "hash_into", "mac", "mac_into", "mac16"}
       => Len(calls) <= 1
    /\ op \in {"hmac", "hmac_into"} => Len(calls) <= 2
    /\ \A i, j \in 1..Len(calls) :
        i # j => <<calls[i].key, calls[i].data>> # <<calls[j].key, calls[j].data>>
    /\ (/\ op = "hmac_into"
        /\ KeySized /\ OutSized
        /\ Len(calls) >= 1
        /\ calls[1].status < 0)
       => /\ res = "err"
          /\ Len(calls) = 1
          /\ Untouched
    /\ (op \in {"hash", "mac", "hmac"} /\ res # "ok") => ret = NoValue

C9_Witness ==
    /\ op = "hmac_into"
    /\ KeySized /\ OutSized
    /\ Len(calls) = 1
    /\ calls[1].status < 0
    /\ res = "err"
    /\ site = "sodium_call"

\* C10: every invocation of libsodium has (key length, output length) among
\* (0, 32), (32, 32) and (32, 16), whatever the sizes of the arguments, and
\* no panic is raised by the range assertions of blake2b_flexible.
C10_PrimitiveSizes ==
    /\ \A i \in 1..Len(calls) :
        <<calls[i].keylen, calls[i].outlen>> \in {<<0, 32>>, <<32, 32>>, <<32, 16>>}
    /\ site # "blake2b_flexible"

C10_Witness ==
    /\ op = "mac_into"
    /\ Len(key) = KEY_MAX + 1
    /\ outlen = 0
    /\ res = "panic"
    /\ site = "mac_into"

====
